---- MODULE Spec2Model ----
(***************************************************************************)
(* Model of butido's concurrent job-DAG executor                           *)
(* (src/orchestrator/orchestrator.rs): Orchestrator::run_tree wires one    *)
(* bounded mpsc channel per job, starts one JobTask per job and returns    *)
(* what the root task sent.  A JobTask receives the results of its         *)
(* dependencies, reuses artifacts or schedules the job, and sends its      *)
(* result to the tasks that depend on it.                                  *)
(*                                                                         *)
(* Every .await of the code is a point where another task may run, so each *)
(* action below is the code between two awaits.                            *)
(***************************************************************************)
EXTENDS Integers, Sequences, FiniteSets, TLC

\* Init draws every dependency relation over at most MaxJobs jobs (valid or
\* not, in every iteration order), and the larger job DAGs of LargerDags.
MaxJobs == 3

\* tokio::sync::mpsc::channel(100)
ChannelCapacity == 100

\* The id of the channel whose receiver run_tree keeps (root_receiver).
Root == 0

\* The errors an endpoint run reports for a job (the e of Err(e)).
Errors == {"e1", "e2"}

\* D depends on B and C, which both depend on A
Diamond == <<{}, {1}, {1}, {2, 3}>>

LargerDags == {Diamond}

\* Every Dag the orchestrator is constructed with: dag[j] is
\* jobdef.dependencies of the j-th job of Dag::iter(), whose uuid is j.
Dags == UNION {[1..n -> SUBSET (1..n)] : n \in 0..MaxJobs} \cup LargerDags

VARIABLES
    jobdag,                 \* Orchestrator.jobdag
    opc,                    \* where run_tree is: "init", "running", "done"
    result,                 \* what Orchestrator::run returned
    sender,                 \* JobTask.sender: the channels a task sends to
    pc,                     \* where each JobTask::run is
    received_dependencies,  \* JobTask::run's local HashMap<Uuid, Vec<ArtifactPath>>
    received_errors,        \* JobTask::run's local HashMap<Uuid, Error>
    out,                    \* the JobResult a task is about to send
    sendIdx,                \* position in self.sender of the send in progress
    chan,                   \* messages queued in each channel
    schedCalls,             \* how often each job was handed to scheduler.schedule_job
    reuseFound,             \* what the reuse check of each job resolved: <<>> before
                            \* the check, then <<the artifacts>>
    runResult,              \* what the endpoint run of each job returned
    sent,                   \* every message a Sender::send has queued, with its sender
    dependency_artifacts,   \* JobTask::run's local dependency_artifacts, given to the
                            \* RunnableJob: <<>> before it is built, then <<the artifacts>>
    firstRun,               \* the answers and the result of an earlier run of the same Dag
    replacement_artifacts,  \* the reuse check: what find_artifacts returned
    staging_store,          \* the reuse check: the artifact names the staging store holds
    release_store,          \* the reuse check: the artifact names the release store holds
    resolved,               \* the reuse check: <<>>, then <<the Vec<ArtifactPath> collected>>
    guard,                  \* EndpointScheduler: the RwLock of each endpoint
    call,                   \* EndpointScheduler: each caller of schedule_job
    bar,                    \* JobTask.bar: the ProgressBar of each task
    constraint,             \* PackageVersionConstraint::matches: its &self
    version,                \* PackageVersionConstraint::matches: its v
    matched                 \* PackageVersionConstraint::matches: <<>> before the call,
                            \* then <<how the call ended>>

\* The variables of Orchestrator::run
ovars == <<jobdag, opc, result, sender, pc, received_dependencies, received_errors,
           out, sendIdx, chan, schedCalls, reuseFound, runResult, sent,
           dependency_artifacts, firstRun>>

\* The variables of the reuse check of JobTask::run
rvars == <<replacement_artifacts, staging_store, release_store, resolved>>

\* The variables of the EndpointScheduler
svars == <<guard, call>>

\* The variables of the progress bars
bvars == <<bar>>

\* The variables of a call of PackageVersionConstraint::matches
mvars == <<constraint, version, matched>>

vars == <<ovars, rvars, svars, bvars, mvars>>

\* No reuse check is looked at
NoReuseCheck ==
    /\ replacement_artifacts = <<>>
    /\ staging_store = {}
    /\ release_store = {}
    /\ resolved = <<>>

\* No scheduler is looked at
NoScheduler ==
    /\ guard = <<>>
    /\ call = <<>>

\* No progress bar is looked at
NoBars == bar = <<>>

\* No version constraint is looked at
NoMatch ==
    /\ constraint = <<>>
    /\ version = <<>>
    /\ matched = <<>>

\* The uuids of the jobs of the run
Jobs == DOMAIN jobdag

----------------------------------------------------------------------------
(* HashMap<Uuid, _> as a function on a set of job ids *)

EmptyMap == [k \in {} |-> {}]

\* An insert that is lost
Insert_Lost(m, k, v) == m

\* HashMap::insert
Insert(m, k, v) == [x \in DOMAIN m \cup {k} |-> IF x = k THEN v ELSE m[x]]

\* An extend that adds nothing
Extend_Nothing(m1, m2) == m1

\* HashMap::extend: entries of m2 replace those of m1
Extend(m1, m2) == [x \in DOMAIN m1 \cup DOMAIN m2 |-> IF x \in DOMAIN m2 THEN m2[x] ELSE m1[x]]

\* The artifacts of one entry of the map only
Flatten_OneEntry(m) ==
    IF DOMAIN m = {} THEN {}
    ELSE LET k == CHOOSE x \in DOMAIN m : \A y \in DOMAIN m : y <= x
         IN  {m[k][i] : i \in 1..Len(m[k])}

\* results.into_iter().map(|tpl| tpl.1.into_iter()).flatten(): the artifacts of
\* all entries of the map (a HashMap iterates in no fixed order: kept as a set)
Flatten(m) == UNION {{m[k][i] : i \in 1..Len(m[k])} : k \in DOMAIN m}

\* JobResult
OkMsg(m)  == [ok |-> TRUE, map |-> m]
ErrMsg(m) == [ok |-> FALSE, map |-> m]

\* The ArtifactPaths the endpoint run of j writes, and those the stores hold for j.
BuiltArtifacts(j)  == << [job |-> j, from |-> "build"] >>
ReusedArtifacts(j) == << [job |-> j, from |-> "store"] >>

\* package().name() and package().version() of a job
PackageOf(j) == [name |-> j, version |-> j]

----------------------------------------------------------------------------
(* indicatif::ProgressBar, for the bars that are looked at *)

\* self.progress_generator.bar()
NewBar == [finished |-> FALSE, message |-> ""]

\* ProgressBar::set_message on the bar of j
set_message(b, j, msg) ==
    IF j \in DOMAIN b THEN [b EXCEPT ![j].message = msg] ELSE b

\* ProgressBar::finish_with_message on the bar of j
finish_with_message(b, j, msg) ==
    IF j \in DOMAIN b THEN [b EXCEPT ![j] = [finished |-> TRUE, message |-> msg]] ELSE b

\* A drop hook that does nothing
drop_Nothing(b, S) == b

\* Drop for JobTask, for the tasks of S: a bar that is not finished is finished
\* with the message of the hook
drop(b, S) ==
    [j \in DOMAIN b |->
        IF j \in S /\ ~b[j].finished
        THEN [finished |-> TRUE, message |-> "Stopped, error on other task"]
        ELSE b[j]]

\* The bar of j after the endpoint run it was handed to (self.bar.clone())
\* returned: the run has finished the bar with its own text, or it has not
EndpointRunBars(b, j) == {b, finish_with_message(b, j, "endpoint run")}

----------------------------------------------------------------------------
(* Orchestrator::run_tree: wiring *)

RECURSIVE SeqOfSet(_, _, _)
\* jobs.iter().filter(..): the jobs of S in iteration order, from job i to job n
SeqOfSet(S, i, n) ==
    IF i > n THEN <<>>
    ELSE (IF i \in S THEN <<i>> ELSE <<>>) \o SeqOfSet(S, i + 1, n)

\* A wiring that gives a task the sender of each dependent twice
DependingOnJob_Twice(dag, j) ==
    SeqOfSet({d \in DOMAIN dag : j \in dag[d]}, 1, Len(dag))
        \o SeqOfSet({d \in DOMAIN dag : j \in dag[d]}, 1, Len(dag))

\* The jobs whose dependencies contain j, in iteration order
DependingOnJob(dag, j) == SeqOfSet({d \in DOMAIN dag : j \in dag[d]}, 1, Len(dag))

\* A wiring loop without the check of `j.uuid() == job.uuid()`
FirstSelfDependent_Unchecked(dag) == 0

\* The first job of the wiring loop that depends on itself, 0 when there is none
FirstSelfDependent(dag) ==
    IF \E j \in DOMAIN dag : j \in dag[j]
    THEN CHOOSE j \in DOMAIN dag : j \in dag[j] /\ \A k \in DOMAIN dag : k \in dag[k] => j <= k
    ELSE 0

\* jobs.iter().find(|j| j.3.borrow().is_none()): 0 when there is none
RootJobId(dag) ==
    IF \E j \in DOMAIN dag : DependingOnJob(dag, j) = <<>>
    THEN CHOOSE j \in DOMAIN dag : /\ DependingOnJob(dag, j) = <<>>
                             /\ \A k \in DOMAIN dag : DependingOnJob(dag, k) = <<>> => j <= k
    ELSE 0

\* A wiring that gives the root task no sender
SenderOf_NoRootSender(dag, j) == DependingOnJob(dag, j)

\* prep.3.into_inner().unwrap_or_else(|| vec![root_sender.clone()])
SenderOf(dag, j) ==
    IF DependingOnJob(dag, j) = <<>> THEN <<Root>> ELSE DependingOnJob(dag, j)

\* `any` in the place of `all` over the dependency uuids
all_dependencies_are_in_Any(deps, list) == deps = {} \/ \E d \in deps : d \in DOMAIN list

\* all_dependencies_are_in
all_dependencies_are_in(deps, list) == \A d \in deps : d \in DOMAIN list

Finished == {"done", "fatal", "dropped"}

\* The orchestrator as OrchestratorSetup::setup returns it, for one of dags
SetUp(dags) ==
    /\ jobdag \in dags
    /\ opc = "init"
    /\ result = [kind |-> "none"]
    /\ sender = [j \in Jobs |-> <<>>]
    /\ pc = [j \in Jobs |-> "new"]
    /\ received_dependencies = [j \in Jobs |-> EmptyMap]
    /\ received_errors = [j \in Jobs |-> EmptyMap]
    /\ out = [j \in Jobs |-> OkMsg(EmptyMap)]
    /\ sendIdx = [j \in Jobs |-> 0]
    /\ chan = [c \in {Root} \cup Jobs |-> <<>>]
    /\ schedCalls = [j \in Jobs |-> 0]
    /\ reuseFound = [j \in Jobs |-> <<>>]
    /\ runResult = [j \in Jobs |-> [kind |-> "none"]]
    /\ sent = {}
    /\ dependency_artifacts = [j \in Jobs |-> <<>>]
    /\ firstRun = <<>>

Init == SetUp(Dags) /\ NoReuseCheck /\ NoScheduler /\ NoBars /\ NoMatch

\* run_tree up to the first poll of the JobTasks
Wire ==
    /\ opc = "init"
    /\ UNCHANGED <<rvars, svars, mvars, jobdag, firstRun, dependency_artifacts, received_dependencies, received_errors, out, sendIdx, chan,
                   schedCalls, reuseFound, runResult, sent>>
    /\ IF FirstSelfDependent(jobdag) # 0
       THEN /\ opc' = "done"
            /\ result' = [kind |-> "wiring", error |-> "Package does depend on itself",
                          package |-> PackageOf(FirstSelfDependent(jobdag))]
            /\ UNCHANGED <<sender, pc, bar>>
       ELSE IF RootJobId(jobdag) = 0
       THEN /\ opc' = "done"
            /\ result' = [kind |-> "wiring", error |-> "Failed to find root task"]
            /\ UNCHANGED <<sender, pc, bar>>
       ELSE /\ opc' = "running"
            /\ sender' = [j \in Jobs |-> SenderOf(jobdag, j)]
            /\ pc' = [j \in Jobs |->
                        IF all_dependencies_are_in(jobdag[j], EmptyMap) THEN "reuse" ELSE "wait"]
            /\ bar' = [j \in DOMAIN bar |->
                         [bar[j] EXCEPT !.message =
                             IF all_dependencies_are_in(jobdag[j], EmptyMap)
                             THEN "Booting" ELSE "Waiting"]]
            /\ UNCHANGED result

----------------------------------------------------------------------------
(* Channels *)

\* The receiver of channel c still exists: root_receiver lives until run_tree
\* returns, a task's receiver until the task's future is released.
ReceiverOpen(c) == IF c = Root THEN opc # "done" ELSE pc[c] \notin Finished

\* A Sender of every channel is kept for the whole run
SenderAlive_Kept(c) == TRUE

\* Some Sender of channel c still exists: the clones held in JobTask.sender of
\* the running tasks, and run_tree's own root_sender.
SenderAlive(c) ==
    IF c = Root THEN opc # "done"
    ELSE \E t \in Jobs : pc[t] \notin Finished /\ \E i \in 1..Len(sender[t]) : sender[t][i] = c

\* Sender::send succeeds when the receiver exists; it waits while the channel is full.
CanSend(c) == Len(chan[c]) < ChannelCapacity

\* A release that empties every channel
DropReceiver_All(ch, j) == [c \in DOMAIN ch |-> <<>>]

\* The channels after task j's future is released: its receiver is dropped,
\* and with it the messages nobody received.
DropReceiver(ch, j) == [ch EXCEPT ![j] = <<>>]

\* The record of one successful send
Sent(j, c, msg) == [from |-> j, to |-> c, msg |-> msg]

\* The JobTasks that exist: created, and neither returned nor released
Unreleased == {t \in Jobs : pc[t] \notin Finished}

\* A join that returns the error and leaves the other tasks in the stream
Fatal_SiblingsKept(j, e) ==
    /\ pc' = [pc EXCEPT ![j] = "fatal"]
    /\ chan' = [c \in {Root} \cup Jobs |-> <<>>]
    /\ opc' = "done"
    /\ result' = [kind |-> "fatal", error |-> e]

\* running_jobs.collect::<Result<()>>() yields the first Err, the stream is
\* released with every JobTask still in it, and `jobs_result?` returns the error.
Fatal(j, e) ==
    /\ pc' = [t \in Jobs |-> IF t = j THEN "fatal"
                             ELSE IF pc[t] \in Finished THEN pc[t] ELSE "dropped"]
    /\ chan' = [c \in {Root} \cup Jobs |-> <<>>]
    /\ opc' = "done"
    /\ result' = [kind |-> "fatal", error |-> e]

----------------------------------------------------------------------------
(* JobTask::run *)

\* A loop that leaves with `break` when errors were received
LoopStep_Break(deps, rd, re) ==
    IF re # EmptyMap THEN "reuse"
    ELSE IF all_dependencies_are_in(deps, rd) THEN "reuse"
    ELSE "wait"

\* Where the receive loop goes after perform_receive returned Ok(true): errors
\* are sent to the parent and the task returns ("fail"), else the loop ends when
\* all dependencies are in ("reuse"), else it receives again ("wait").
LoopStep(deps, rd, re) ==
    IF re # EmptyMap THEN "fail"
    ELSE IF all_dependencies_are_in(deps, rd) THEN "reuse"
    ELSE "wait"

\* perform_receive, and the rest of the loop body after it
Receive(j) ==
    /\ opc = "running"
    /\ pc[j] = "wait"
    /\ UNCHANGED <<rvars, svars, mvars, jobdag, firstRun, dependency_artifacts, sender, sendIdx, schedCalls, reuseFound, runResult, sent>>
    /\ IF chan[j] # <<>>
       THEN LET msg == Head(chan[j]) IN
            /\ UNCHANGED <<opc, result, bar>>
            /\ IF msg.ok
               THEN LET rd == Extend(received_dependencies[j], msg.map) IN
                    /\ received_dependencies' = [received_dependencies EXCEPT ![j] = rd]
                    /\ UNCHANGED received_errors
                    /\ chan' = [chan EXCEPT ![j] = Tail(@)]
                    /\ pc' = [pc EXCEPT ![j] = LoopStep(jobdag[j], rd, received_errors[j])]
                    /\ out' = [out EXCEPT ![j] =
                                 IF pc'[j] = "fail" THEN ErrMsg(received_errors[j]) ELSE @]
               ELSE LET re == Extend(received_errors[j], msg.map) IN
                    /\ received_errors' = [received_errors EXCEPT ![j] = re]
                    /\ UNCHANGED received_dependencies
                    /\ chan' = [chan EXCEPT ![j] = Tail(@)]
                    /\ pc' = [pc EXCEPT ![j] = LoopStep(jobdag[j], received_dependencies[j], re)]
                    /\ out' = [out EXCEPT ![j] = IF pc'[j] = "fail" THEN ErrMsg(re) ELSE @]
       ELSE /\ ~SenderAlive(j)
            /\ UNCHANGED <<received_dependencies, received_errors, out>>
            /\ LET missing_deps == {d \in jobdag[j] : d \notin DOMAIN received_dependencies[j]} IN
               IF missing_deps # {}
               THEN /\ Fatal(j, [from |-> "perform_receive", job |-> j, missing |-> missing_deps])
                    /\ bar' = drop(bar, Unreleased)
               ELSE /\ pc' = [pc EXCEPT ![j] = "reuse"]
                    /\ UNCHANGED <<opc, result, chan, bar>>

\* self.sender[0].send(Err(received_errors)).await; the result of the send is
\* dropped, the bar is finished and the task returns
SendReceivedErrors(j) ==
    /\ opc = "running"
    /\ pc[j] = "fail"
    /\ LET c == sender[j][1] IN
       /\ ReceiverOpen(c) => CanSend(c)
       /\ chan' = DropReceiver(IF ReceiverOpen(c) THEN [chan EXCEPT ![c] = Append(@, out[j])]
                               ELSE chan, j)
       /\ sent' = IF ReceiverOpen(c) THEN sent \cup {Sent(j, c, out[j])} ELSE sent
    /\ pc' = [pc EXCEPT ![j] = "done"]
    /\ bar' = drop(finish_with_message(bar, j, "Stopping, errors from child received"), {j})
    /\ UNCHANGED <<rvars, svars, mvars, jobdag, firstRun, dependency_artifacts, opc, result, sender, received_dependencies, received_errors, out,
                   sendIdx, schedCalls, reuseFound, runResult>>

\* A reuse check that never takes the found artifacts
is_empty_Always(v) == TRUE

\* Vec::is_empty of `if !artifacts.is_empty()`
is_empty(v) == v = <<>>

\* In a second run of the Dag the catalog and the stores resolve for j what they
\* resolved in the first run
SameCatalogAnswer(j, artifacts) ==
    IF firstRun = <<>> THEN TRUE
    ELSE firstRun[1].reuseFound[j] \in {<<>>, <<artifacts>>}

\* In a second run of the Dag the endpoint run of j returns what it returned in
\* the first run
SameEndpointResult(j, r) ==
    IF firstRun = <<>> THEN TRUE
    ELSE IF firstRun[1].runResult[j].kind \in {"none", "fatal"} THEN TRUE
    ELSE firstRun[1].runResult[j] = r

\* The reuse check, and when it resolves nothing the code up to the await of
\* scheduler.schedule_job
ReuseCheck(j) ==
    /\ opc = "running"
    /\ pc[j] = "reuse"
    /\ UNCHANGED <<rvars, svars, mvars, jobdag, firstRun, sender, received_errors, runResult, sent>>
    /\ \/ /\ Fatal(j, [from |-> "find_artifacts", job |-> j])
          /\ bar' = drop(bar, Unreleased)
          /\ UNCHANGED <<received_dependencies, out, sendIdx, schedCalls, reuseFound,
                         dependency_artifacts>>
       \/ \E artifacts \in {<<>>, ReusedArtifacts(j)} :
            /\ SameCatalogAnswer(j, artifacts)
            /\ reuseFound' = [reuseFound EXCEPT ![j] = <<artifacts>>]
            /\ IF ~is_empty(artifacts)
               THEN LET rd == Insert(received_dependencies[j], j, artifacts) IN
                    /\ received_dependencies' = [received_dependencies EXCEPT ![j] = rd]
                    /\ out' = [out EXCEPT ![j] = OkMsg(rd)]
                    /\ sendIdx' = [sendIdx EXCEPT ![j] = 1]
                    /\ pc' = [pc EXCEPT ![j] = "send_ok"]
                    /\ UNCHANGED <<opc, result, chan, schedCalls, dependency_artifacts, bar>>
               ELSE /\ dependency_artifacts' =
                         [dependency_artifacts EXCEPT ![j] = <<Flatten(received_dependencies[j])>>]
                    /\ \/ /\ Fatal(j, [from |-> "build_from_job", job |-> j])
                          /\ bar' = drop(set_message(bar, j, "Preparing"), Unreleased)
                          /\ UNCHANGED <<received_dependencies, out, sendIdx, schedCalls>>
                       \/ /\ schedCalls' = [schedCalls EXCEPT ![j] = @ + 1]
                          /\ pc' = [pc EXCEPT ![j] = "scheduling"]
                          /\ bar' = set_message(bar, j, "Scheduling")
                          /\ UNCHANGED <<opc, result, chan, received_dependencies, out,
                                         sendIdx>>

\* scheduler.schedule_job(..).await? returns, and JobHandle::run is called on the handle
ScheduleJobReturns(j) ==
    /\ opc = "running"
    /\ pc[j] = "scheduling"
    /\ UNCHANGED <<rvars, svars, mvars, jobdag, firstRun, dependency_artifacts, sender, received_dependencies, received_errors, out, sendIdx,
                   schedCalls, reuseFound, runResult, sent>>
    /\ \/ /\ Fatal(j, [from |-> "schedule_job", job |-> j])
          /\ bar' = drop(bar, Unreleased)
       \/ /\ pc' = [pc EXCEPT ![j] = "running"]
          /\ UNCHANGED <<opc, result, chan, bar>>

\* An errormap without the insert
Errormap_Empty(j, e) == EmptyMap

\* let mut errormap = HashMap::with_capacity(1); errormap.insert(job_uuid, e);
Errormap(j, e) == Insert(EmptyMap, j, e)

\* .run().await? returns, and the match on its result up to the first send
JobRunReturns(j) ==
    /\ opc = "running"
    /\ pc[j] = "running"
    /\ UNCHANGED <<rvars, svars, mvars, jobdag, firstRun, dependency_artifacts, sender, received_errors, schedCalls, reuseFound, sent>>
    /\ \/ /\ runResult' = [runResult EXCEPT ![j] = [kind |-> "fatal"]]
          /\ Fatal(j, [from |-> "run", job |-> j])
          /\ \E b \in EndpointRunBars(bar, j) : bar' = drop(b, Unreleased)
          /\ UNCHANGED <<received_dependencies, out, sendIdx>>
       \/ \E e \in Errors :
            /\ SameEndpointResult(j, [kind |-> "err", error |-> e])
            /\ bar' \in EndpointRunBars(bar, j)
            /\ runResult' = [runResult EXCEPT ![j] = [kind |-> "err", error |-> e]]
            /\ out' = [out EXCEPT ![j] = ErrMsg(Errormap(j, e))]
            /\ pc' = [pc EXCEPT ![j] = "send_err"]
            /\ UNCHANGED <<opc, result, chan, received_dependencies, sendIdx>>
       \/ LET artifacts == BuiltArtifacts(j)
              rd == Insert(received_dependencies[j], j, artifacts) IN
            /\ SameEndpointResult(j, [kind |-> "ok", artifacts |-> artifacts])
            /\ bar' \in EndpointRunBars(bar, j)
            /\ runResult' = [runResult EXCEPT ![j] = [kind |-> "ok", artifacts |-> artifacts]]
            /\ received_dependencies' = [received_dependencies EXCEPT ![j] = rd]
            /\ out' = [out EXCEPT ![j] = OkMsg(rd)]
            /\ sendIdx' = [sendIdx EXCEPT ![j] = 1]
            /\ pc' = [pc EXCEPT ![j] = "send_ok"]
            /\ UNCHANGED <<opc, result, chan>>

\* self.sender[0].send(Err(errormap)).await?
SendErrormap(j) ==
    /\ opc = "running"
    /\ pc[j] = "send_err"
    /\ UNCHANGED <<rvars, svars, mvars, jobdag, firstRun, dependency_artifacts, sender, received_dependencies, received_errors, out, sendIdx,
                   schedCalls, reuseFound, runResult>>
    /\ LET c == sender[j][1] IN
       IF ReceiverOpen(c)
       THEN /\ CanSend(c)
            /\ chan' = DropReceiver([chan EXCEPT ![c] = Append(@, out[j])], j)
            /\ sent' = sent \cup {Sent(j, c, out[j])}
            /\ pc' = [pc EXCEPT ![j] = "done"]
            /\ bar' = drop(bar, {j})
            /\ UNCHANGED <<opc, result>>
       ELSE /\ Fatal(j, [from |-> "send", job |-> j, to |-> c])
            /\ bar' = drop(bar, Unreleased)
            /\ UNCHANGED sent

\* One round of `for s in self.sender.iter() { s.send(Ok(..)).await?; }`; after
\* the last round the reuse path finishes the bar, and the task returns
SendOk(j) ==
    /\ opc = "running"
    /\ pc[j] = "send_ok"
    /\ UNCHANGED <<rvars, svars, mvars, jobdag, firstRun, dependency_artifacts, sender, received_dependencies, received_errors, out,
                   schedCalls, reuseFound, runResult>>
    /\ LET c == sender[j][sendIdx[j]] IN
       IF ReceiverOpen(c)
       THEN /\ CanSend(c)
            /\ sendIdx' = [sendIdx EXCEPT ![j] = @ + 1]
            /\ IF sendIdx[j] = Len(sender[j])
               THEN /\ pc' = [pc EXCEPT ![j] = "done"]
                    /\ chan' = DropReceiver([chan EXCEPT ![c] = Append(@, out[j])], j)
                    /\ bar' = drop(IF runResult[j].kind = "none"
                                   THEN finish_with_message(bar, j, "Reusing artifact")
                                   ELSE bar, {j})
               ELSE /\ UNCHANGED <<pc, bar>>
                    /\ chan' = [chan EXCEPT ![c] = Append(@, out[j])]
            /\ sent' = sent \cup {Sent(j, c, out[j])}
            /\ UNCHANGED <<opc, result>>
       ELSE /\ Fatal(j, [from |-> "send", job |-> j, to |-> c])
            /\ bar' = drop(bar, Unreleased)
            /\ UNCHANGED <<sendIdx, sent>>

----------------------------------------------------------------------------
(* Orchestrator::run_tree: completion *)

\* Every JobTask returned Ok(()): root_receiver.recv().await and the match on it
RootReceive ==
    /\ opc = "running"
    /\ \A j \in Jobs : pc[j] = "done"
    /\ IF chan[Root] # <<>>
       THEN LET msg == Head(chan[Root]) IN
            result' = IF msg.ok
                      THEN [kind |-> "ok",
                            artifacts |-> Flatten(msg.map),
                            errors |-> EmptyMap]
                      ELSE [kind |-> "ok", artifacts |-> {}, errors |-> msg.map]
       ELSE \* recv() yields None once the channel is empty and every Sender is
            \* dropped, and waits as long as a Sender exists
            /\ ~SenderAlive(Root)
            /\ result' = [kind |-> "fatal",
                          error |-> [from |-> "recv", text |-> "No result received..."]]
    /\ opc' = "done"
    /\ chan' = [c \in {Root} \cup Jobs |-> <<>>]
    /\ UNCHANGED <<rvars, svars, bvars, mvars, jobdag, firstRun, dependency_artifacts, sender, pc, received_dependencies, received_errors, out, sendIdx,
                   schedCalls, reuseFound, runResult, sent>>

Next ==
    \/ Wire
    \/ \E j \in Jobs : Receive(j)
    \/ \E j \in Jobs : SendReceivedErrors(j)
    \/ \E j \in Jobs : ReuseCheck(j)
    \/ \E j \in Jobs : ScheduleJobReturns(j)
    \/ \E j \in Jobs : JobRunReturns(j)
    \/ \E j \in Jobs : SendErrormap(j)
    \/ \E j \in Jobs : SendOk(j)
    \/ RootReceive

Spec == Init /\ [][Next]_vars

\* The runtime polls every task that can take a step (FuturesUnordered polls
\* each future that was woken), and the calls to the catalog, the scheduler and
\* the endpoints return.
FairSpec == Spec /\ WF_vars(Next)

----------------------------------------------------------------------------
(* Vocabulary of the properties *)

\* The jobs that list j in their dependencies
Dependents(j) == {d \in Jobs : j \in jobdag[d]}

\* The jobs no job depends on
Sinks == {j \in Jobs : Dependents(j) = {}}

SelfDependent == {j \in Jobs : j \in jobdag[j]}

RECURSIVE Closure(_, _)
\* S with the dependencies of its jobs, n times over
Closure(S, n) == IF n = 0 THEN S ELSE Closure(S \cup UNION {jobdag[x] : x \in S}, n - 1)

\* The direct and indirect dependencies of j
TransitiveDeps(j) == Closure(jobdag[j], Len(jobdag))

\* A job DAG as the DAG builder promises it: acyclic, with a single root
ValidDag == /\ \A j \in Jobs : j \notin TransitiveDeps(j)
            /\ Cardinality(Sinks) = 1

NoTaskStarted == \A j \in Jobs : pc[j] = "new"

Scheduled(j) == schedCalls[j] > 0

SchedulerNeverCalled == \A j \in Jobs : ~Scheduled(j)

\* The reuse check of j ran to its end
ReuseChecked(j) == reuseFound[j] # <<>>

Reused(j) == ReuseChecked(j) /\ reuseFound[j][1] # <<>>

Built(j) == runResult[j].kind = "ok"

\* The endpoint run of j returned Err(e)
RunFailed(j) == runResult[j].kind = "err"

\* The artifacts a successful job has
ArtifactsOf(j) == IF Reused(j) THEN reuseFound[j][1] ELSE runResult[j].artifacts

\* The run ended on an error of the catalog, the job builder or the scheduler
\* that the code passes on with `?`
ExternalFatal ==
    /\ result.kind = "fatal"
    /\ result.error.from \in {"find_artifacts", "build_from_job", "schedule_job", "run"}

----------------------------------------------------------------------------
(* Wiring *)

\* C1: when some job lists its own id in its dependencies, run_tree fails during
\* wiring with the error "Package does depend on itself" carrying the package
\* name and version of a job that depends on itself; no JobTask is started and
\* the scheduler is never called.
C1_SelfDependencyRejected ==
    SelfDependent # {} =>
        /\ NoTaskStarted
        /\ SchedulerNeverCalled
        /\ sent = {}
        /\ opc \in {"init", "done"}
        /\ opc = "done" =>
              /\ result.kind = "wiring"
              /\ result.error = "Package does depend on itself"
              /\ \E j \in SelfDependent : result.package = PackageOf(j)

\* The run of a DAG whose second job depends on itself, and whose first job does
\* not, has returned.
C1_Witness ==
    /\ opc = "done"
    /\ Len(jobdag) >= 2
    /\ 2 \in SelfDependent
    /\ 1 \notin SelfDependent
    /\ result.kind = "wiring"

\* C2 (as claimed): when the number of sinks of the DAG is zero or at least two,
\* run fails with a wiring error, no JobTask runs and the scheduler is never called.
C2_UniqueRootEnforced ==
    Cardinality(Sinks) # 1 =>
        /\ NoTaskStarted
        /\ SchedulerNeverCalled
        /\ opc = "done" => result.kind = "wiring"

----------------------------------------------------------------------------
(* Readiness *)

\* A job is ready: every id of its dependencies is a key of its
\* received_dependencies, and each of these jobs was built or reused.
Ready(j) ==
    /\ jobdag[j] \subseteq DOMAIN received_dependencies[j]
    /\ \A d \in jobdag[j] : Reused(d) \/ Built(d)

\* C3: a job is handed to the scheduler, or has its reuse check performed, only
\* when every id of its dependencies is a key of its received_dependencies and
\* each of these dependencies was built or reused before; and the scheduler calls
\* come in dependency order: once a job was handed to the scheduler, none of its
\* dependencies is handed to the scheduler in the same step or later.
C3_ReadyBeforeDispatch ==
    /\ [](\A j \in Jobs :
            (pc[j] \in {"reuse", "scheduling", "running"} \/ ReuseChecked(j) \/ Scheduled(j))
                => Ready(j))
    /\ [][\A j \in Jobs : \A d \in jobdag[j] :
            Scheduled(j)' => (Scheduled(d)' = Scheduled(d))]_vars

\* In the chain of three jobs (in any iteration order) all three jobs were
\* handed to the scheduler.
C3_Witness ==
    /\ Len(jobdag) = 3
    /\ \E a \in Jobs : \E b \in Jobs : \E c \in Jobs :
          jobdag[a] = {} /\ jobdag[b] = {a} /\ jobdag[c] = {b}
    /\ \A j \in Jobs : Scheduled(j)

\* C4: every Ok map a job sends, after reuse or after a successful run, has the
\* job's own id and every id of its dependencies as keys.
C4_OkMapHasDependencies ==
    /\ \A s \in sent : s.msg.ok =>
          ({s.from} \cup jobdag[s.from]) \subseteq DOMAIN s.msg.map
    /\ \A j \in Jobs : pc[j] = "send_ok" =>
          /\ out[j].ok
          /\ ({j} \cup jobdag[j]) \subseteq DOMAIN out[j].map

\* A reused job and a built job, each with two dependencies or more, have sent
\* their Ok maps.
C4_Witness ==
    /\ \E s \in sent : s.msg.ok /\ Reused(s.from) /\ Cardinality(jobdag[s.from]) >= 2
    /\ \E s \in sent : s.msg.ok /\ Built(s.from) /\ jobdag[s.from] # {}

----------------------------------------------------------------------------
(* Propagation of results *)

\* C5 (as claimed): in a run over a valid DAG that has ended (other than on an
\* error of the catalog, the job builder or the scheduler), every dependent of a
\* job that succeeded has received the job's id mapped to the job's artifacts,
\* and for a job whose endpoint run failed some dependent has received its id in
\* an Err map and the root's Err map holds its id.
C5_BroadcastFidelity ==
    (ValidDag /\ opc = "done" /\ ~ExternalFatal) =>
        \A j \in Jobs :
            /\ (Reused(j) \/ Built(j)) =>
                  \A d \in Dependents(j) :
                      /\ j \in DOMAIN received_dependencies[d]
                      /\ received_dependencies[d][j] = ArtifactsOf(j)
            /\ RunFailed(j) =>
                  /\ Dependents(j) # {} => \E d \in Dependents(j) : j \in DOMAIN received_errors[d]
                  /\ result.kind = "ok"
                  /\ j \in DOMAIN result.errors
                  /\ result.errors[j] = runResult[j].error

\* C6: a job whose reuse check resolved at least one artifact is never handed
\* to the scheduler and never run; its task goes on to send the Ok map with its
\* id mapped to the reused artifacts, and when it has returned every channel of
\* its sender list got that map.
C6_ReuseShortCircuits ==
    \A j \in Jobs : Reused(j) =>
        /\ ~Scheduled(j)
        /\ runResult[j].kind = "none"
        /\ pc[j] \in {"send_ok", "done", "fatal", "dropped"}
        /\ out[j] = OkMsg(received_dependencies[j])
        /\ j \in DOMAIN received_dependencies[j]
        /\ received_dependencies[j][j] = reuseFound[j][1]
        /\ pc[j] = "done" =>
              \A i \in 1..Len(sender[j]) : Sent(j, sender[j][i], out[j]) \in sent

\* A reused job with two dependents has sent its map and returned.
C6_Witness == \E j \in Jobs : Reused(j) /\ pc[j] = "done" /\ Len(sender[j]) >= 2

\* C7: a task that has received an Err message never performs the reuse check
\* and never calls the scheduler: a task at the reuse check or in dispatch has
\* an empty received_errors, and a task with errors is sending them or has ended.
C7_NoBuildAfterError ==
    \A j \in Jobs :
        /\ pc[j] \in {"reuse", "scheduling", "running"} => received_errors[j] = EmptyMap
        /\ received_errors[j] # EmptyMap =>
              /\ ~ReuseChecked(j)
              /\ ~Scheduled(j)
              /\ pc[j] \in {"fail", "done", "fatal", "dropped"}

\* A task has received the Ok map of one dependency, then the Err map of
\* another, and returned.
C7_Witness ==
    \E j \in Jobs :
        /\ received_errors[j] # EmptyMap
        /\ received_dependencies[j] # EmptyMap
        /\ pc[j] = "done"

\* C8: in the chain A, B, C (B depends on A, C on B, in any iteration order),
\* once the endpoint run of A has failed with e the scheduler is never called
\* for B or C, their reuse checks are not performed, the run does not fail and
\* is never stuck before it returns, and it returns no artifacts and the error
\* map {A: e}.
C8_FailingLeafOfChain ==
    Len(jobdag) = 3 =>
    \A a \in Jobs : RunFailed(a) => \A b \in Jobs : \A c \in Jobs :
        (jobdag[a] = {} /\ jobdag[b] = {a} /\ jobdag[c] = {b}) =>
            /\ ~Scheduled(b) /\ ~Scheduled(c)
            /\ ~ReuseChecked(b) /\ ~ReuseChecked(c)
            /\ result.kind \in {"none", "ok"}
            /\ opc # "done" => ENABLED Next
            /\ opc = "done" =>
                  result = [kind |-> "ok", artifacts |-> {},
                            errors |-> [x \in {a} |-> runResult[a].error]]

\* The run of a chain whose leaf is the last job of the iteration, and failed,
\* has returned.
C8_Witness ==
    /\ Len(jobdag) = 3
    /\ jobdag[3] = {} /\ jobdag[2] = {3} /\ jobdag[1] = {2}
    /\ RunFailed(3)
    /\ opc = "done"

\* C9 (as claimed): in a run over a valid DAG that has ended (other than on an
\* error of the catalog, the job builder or the scheduler), for every job whose
\* endpoint run failed with e the run returned Ok with no artifacts and an error
\* map that holds the job's id.
C9_FailureReachesRoot ==
    (ValidDag /\ opc = "done" /\ ~ExternalFatal) =>
        \A j \in Jobs : RunFailed(j) =>
            /\ result.kind = "ok"
            /\ result.artifacts = {}
            /\ j \in DOMAIN result.errors

\* C10: when run returns Ok, the pair comes from one message sent on the root
\* channel: either an Ok message, and then the error map is empty and the
\* artifacts are those of the message, or an Err message, and then there are no
\* artifacts and the error map is that of the message and not empty.
C10_NeverMixed ==
    result.kind = "ok" =>
        /\ result.errors = EmptyMap \/ (result.artifacts = {} /\ result.errors # EmptyMap)
        /\ \E s \in sent :
              /\ s.to = Root
              /\ \/ /\ s.msg.ok
                    /\ result.errors = EmptyMap
                    /\ result.artifacts = Flatten(s.msg.map)
                 \/ /\ ~s.msg.ok
                    /\ result.artifacts = {}
                    /\ result.errors = s.msg.map
                    /\ result.errors # EmptyMap

\* A run of two jobs or more has returned Ok with errors.
C10_Witness ==
    /\ result.kind = "ok"
    /\ result.errors # EmptyMap
    /\ Len(jobdag) >= 2

----------------------------------------------------------------------------
(* Errors of the scheduler and of the catalog *)

\* schedule_job or the endpoint run of j raised an error
SchedulerError(j) ==
    \/ RunFailed(j)
    \/ /\ result.kind = "fatal"
       /\ result.error.from \in {"schedule_job", "run"}
       /\ result.error.job = j

\* C11 (as claimed): every error the scheduler raises for job j, by schedule_job
\* or by the endpoint run, reaches the caller under j's id in the error map that
\* Orchestrator::run returns, and run itself does not fail.
C11_SchedulerErrorInErrorMap ==
    (ValidDag /\ opc = "done") =>
        \A j \in Jobs : SchedulerError(j) =>
            /\ result.kind = "ok"
            /\ j \in DOMAIN result.errors

\* find_artifacts failed for j
FindArtifactsFailed(j) ==
    /\ result.kind = "fatal"
    /\ result.error.from = "find_artifacts"
    /\ result.error.job = j

\* C12 (as claimed): when find_artifacts fails for job j, the error reaches the
\* caller under j's id in the error map that Orchestrator::run returns.
C12_CatalogErrorInErrorMap ==
    (ValidDag /\ opc = "done") =>
        \A j \in Jobs : FindArtifactsFailed(j) =>
            /\ result.kind = "ok"
            /\ j \in DOMAIN result.errors

----------------------------------------------------------------------------
(* The result of a run without errors *)

\* The artifacts of the jobs of S, as a set
AllArtifactsOf(S) == UNION {{ArtifactsOf(k)[i] : i \in 1..Len(ArtifactsOf(k))} : k \in S}

Succeeded(j) == Reused(j) \/ Built(j)

\* run returned the artifacts of an Ok message of the root channel
ReturnedArtifacts == result.kind = "ok" /\ result.errors = EmptyMap

\* C15 (as claimed): in a run where every job succeeds, the artifact list that
\* is returned consists of the artifacts of the root job and holds no artifact
\* of another job.
C15_OnlyRootArtifacts ==
    (ReturnedArtifacts /\ ValidDag) => result.artifacts = AllArtifactsOf(Sinks)

\* C15 (amended): in a run over a valid DAG that returns artifacts, every job
\* succeeded and the artifact list holds the artifacts of the root job together
\* with those of all its direct and indirect dependencies, each built or reused.
C15_RootAndDependencyArtifacts ==
    (ReturnedArtifacts /\ ValidDag) =>
        /\ \A j \in Jobs : Succeeded(j)
        /\ \A r \in Sinks :
              result.artifacts = AllArtifactsOf({r} \cup TransitiveDeps(r))
        /\ \A j \in Jobs : \A i \in 1..Len(ArtifactsOf(j)) :
              ArtifactsOf(j)[i] \in result.artifacts

\* The run of the chain A, B, C returned the artifacts of the three jobs.
C15_Witness ==
    /\ jobdag = <<{}, {1}, {2}>>
    /\ ReturnedArtifacts
    /\ Cardinality(result.artifacts) = 3

----------------------------------------------------------------------------
(* Dispatch *)

\* C16: a job is handed to the scheduler at most once, also when several jobs
\* depend on it: in the diamond (B and C depend on A, D on B and C) A is
\* scheduled once although B and C both wait for it; and a job is scheduled only
\* when it holds the artifacts of each of its dependencies (D those of B and C).
C16_ScheduledAtMostOnce ==
    /\ \A j \in Jobs : schedCalls[j] <= 1
    /\ \A j \in Jobs : Scheduled(j) =>
          \A d \in jobdag[j] :
              /\ d \in DOMAIN received_dependencies[j]
              /\ Succeeded(d)
              /\ received_dependencies[j][d] = ArtifactsOf(d)
    /\ (jobdag = Diamond /\ Succeeded(2) /\ Succeeded(3)) =>
          schedCalls[1] = IF Reused(1) THEN 0 ELSE 1

\* In the diamond A, B and C were built and D is handed to the scheduler.
C16_Witness ==
    /\ jobdag = Diamond
    /\ Built(1) /\ Built(2) /\ Built(3)
    /\ schedCalls = <<1, 1, 1, 1>>

\* The artifacts of the list l, as a set
SetOf(l) == {l[i] : i \in 1..Len(l)}

\* JobTask::run of j built the dependency_artifacts of its RunnableJob
Dispatched(j) == dependency_artifacts[j] # <<>>

\* C17: when job j is dispatched, the dependency artifacts given to its runnable
\* job are the artifacts of all lists in j's received dependencies; they hold
\* the artifacts of every dependency of j, those of a reused dependency too: in
\* the chain A, B, C with B reused, B is not scheduled and the job of C gets the
\* reused artifacts of B.
C17_DependencyArtifactsFlattened ==
    /\ \A j \in Jobs : Dispatched(j) =>
          /\ dependency_artifacts[j][1] =
                 UNION {SetOf(received_dependencies[j][k]) :
                            k \in DOMAIN received_dependencies[j] \ {j}}
          /\ \A d \in jobdag[j] :
                 Succeeded(d) /\ SetOf(ArtifactsOf(d)) \subseteq dependency_artifacts[j][1]
    /\ (jobdag = <<{}, {1}, {2}>> /\ Reused(2) /\ Scheduled(3)) =>
          /\ ~Scheduled(2)
          /\ SetOf(ReusedArtifacts(2)) \subseteq dependency_artifacts[3][1]
          /\ Scheduled(1) \/ Reused(1)

\* In the chain A, B, C job A was built, B was reused, and C is handed to the
\* scheduler with the artifacts of A and B.
C17_Witness ==
    /\ jobdag = <<{}, {1}, {2}>>
    /\ Built(1) /\ Reused(2) /\ Scheduled(3)
    /\ schedCalls = <<1, 0, 1>>
    /\ dependency_artifacts[3] = <<SetOf(BuiltArtifacts(1)) \cup SetOf(ReusedArtifacts(2))>>

----------------------------------------------------------------------------
(* Sends to a dependent that returned *)

\* A send of a JobTask failed because the receiver of the dependent was dropped
SendToClosedReceiver == result.kind = "fatal" /\ result.error.from = "send"

\* C20 (as claimed): in no interleaving over a valid DAG does an outbound send
\* of a JobTask fail because the receiver of the dependent is already closed.
C20_NoSendToClosedReceiver == ValidDag => ~SendToClosedReceiver

----------------------------------------------------------------------------
(* Termination *)

\* Every JobTask returned or was released
AllTasksResolved == \A j \in Jobs : pc[j] \in Finished

----------------------------------------------------------------------------
(* JobTask::run: the reuse check on what the catalog returned *)

MaxCandidates == 3

ArtifactNames == {"a", "b"}

StoreRoots == {"staging", "release"}

\* FullArtifactPath: the root of a store joined with an ArtifactPath
FullArtifactPaths == [artifact_path : ArtifactNames, root : StoreRoots]

\* What find_artifacts can return (the metadata of a candidate is not used)
CandidateLists == UNION {[1..n -> FullArtifactPaths] : n \in 0..MaxCandidates}

\* FullArtifactPath::is_in_staging_store: the path lies in the staging store
is_in_staging_store(p, staging) == p.root = "staging" /\ p.artifact_path \in staging

\* StagingStore::get, ReleaseStore::get: <<>> is None, <<ap>> is Some(ap), where
\* ap is the ArtifactPath of that name as the store of that root holds it
StoreGet(store, root, artifact_path) ==
    IF artifact_path \in store
    THEN << [artifact_path |-> artifact_path, root |-> root] >>
    ELSE <<>>

\* .sorted_by(|(p1, _), (p2, _)| r1.cmp(&r2)): a stable sort on the bool
\* is_in_staging_store, and false orders before true
sorted_by(l, staging) ==
    LET InStaging(p)  == is_in_staging_store(p, staging)
        NotInStaging(p) == ~is_in_staging_store(p, staging)
    IN  SelectSeq(l, NotInStaging) \o SelectSeq(l, InStaging)

RECURSIVE unique_by(_, _)
\* .unique_by(|tpl| tpl.0.artifact_path().clone()): the first element of each
\* artifact_path is kept; seen are the paths of the elements before l
unique_by(l, seen) ==
    IF l = <<>> THEN <<>>
    ELSE IF Head(l).artifact_path \in seen
         THEN unique_by(Tail(l), seen)
         ELSE <<Head(l)>> \o unique_by(Tail(l), seen \cup {Head(l).artifact_path})

\* A lookup that asks the release store first
StoreLookup_ReleaseFirst(p, staging, release) ==
    IF StoreGet(release, "release", p.artifact_path) # <<>>
    THEN StoreGet(release, "release", p.artifact_path)
    ELSE StoreGet(staging, "staging", p.artifact_path)

\* The closure of the filter_map: the staging store is asked for the
\* artifact_path, then the release store
StoreLookup(p, staging, release) ==
    IF StoreGet(staging, "staging", p.artifact_path) # <<>>
    THEN StoreGet(staging, "staging", p.artifact_path)
    ELSE IF StoreGet(release, "release", p.artifact_path) # <<>>
         THEN StoreGet(release, "release", p.artifact_path)
         ELSE <<>>

RECURSIVE filter_map(_, _, _)
\* .filter_map(..).collect::<Vec<ArtifactPath>>()
filter_map(l, staging, release) ==
    IF l = <<>> THEN <<>>
    ELSE StoreLookup(Head(l), staging, release) \o filter_map(Tail(l), staging, release)

\* let mut artifacts = replacement_artifacts.into_iter().sorted_by(..)
\*     .unique_by(..).filter_map(..).collect()
ReuseArtifacts(candidates, staging, release) ==
    filter_map(unique_by(sorted_by(candidates, staging), {}), staging, release)

\* find_artifacts returned a list, the stores hold some artifacts
InitReuse ==
    /\ SetUp({<<>>})
    /\ NoScheduler
    /\ NoBars
    /\ NoMatch
    /\ replacement_artifacts \in CandidateLists
    /\ staging_store \in SUBSET ArtifactNames
    /\ release_store \in SUBSET ArtifactNames
    /\ resolved = <<>>

\* The reuse check computes artifacts
CollectArtifacts ==
    /\ resolved = <<>>
    /\ resolved' = <<ReuseArtifacts(replacement_artifacts, staging_store, release_store)>>
    /\ UNCHANGED <<ovars, svars, bvars, mvars, replacement_artifacts, staging_store, release_store>>

NextReuse == CollectArtifacts

SpecReuse == InitReuse /\ [][NextReuse]_vars

\* The candidates hold artifact path n once as a path that lies in the staging
\* store and once as a path of the release store, which holds n
InBothStores(n) ==
    /\ \E i \in 1..Len(replacement_artifacts) :
          /\ replacement_artifacts[i].artifact_path = n
          /\ is_in_staging_store(replacement_artifacts[i], staging_store)
    /\ \E i \in 1..Len(replacement_artifacts) :
          /\ replacement_artifacts[i] = [artifact_path |-> n, root |-> "release"]
          /\ n \in release_store

\* C13: for every list of candidates and every content of the two stores, when
\* two candidates share an artifact name, one in the staging store and one in
\* the release store, the reuse check returns exactly one ArtifactPath of that
\* name, and it is the copy of the staging store.
C13_StagingCopyWins ==
    resolved # <<>> =>
        \A n \in ArtifactNames : InBothStores(n) =>
            /\ Cardinality({i \in 1..Len(resolved[1]) : resolved[1][i].artifact_path = n}) = 1
            /\ \A i \in 1..Len(resolved[1]) :
                  resolved[1][i].artifact_path = n => resolved[1][i].root = "staging"

\* The check ran on a list that names "a" in the release store before "a" in the
\* staging store, and resolved two artifacts.
C13_Witness ==
    /\ resolved # <<>>
    /\ InBothStores("a")
    /\ Len(replacement_artifacts) = 3
    /\ replacement_artifacts[1] = [artifact_path |-> "a", root |-> "release"]
    /\ replacement_artifacts[2] = [artifact_path |-> "a", root |-> "staging"]
    /\ Len(resolved[1]) = 2

----------------------------------------------------------------------------
(* EndpointScheduler: schedule_job, select_free_endpoint, JobHandle::get_result *)

NumEndpoints == 2

MaxLoad == 1

MaxRounds == 2

\* The tasks that call schedule_job
Callers == {1, 2}

\* self.endpoints, in the order of the Vec
Endpoints == DOMAIN guard

\* RwLock<Endpoint>: the caller that holds the write guard (0: nobody), and the
\* callers that hold a read guard
Unlocked == [writer |-> 0, readers |-> {}]

\* A task that has not called schedule_job
IdleCall ==
    [pc |-> "idle",        \* "idle", "select", "handle", "running", "done", "failed"
     rounds |-> 0,         \* the iterations of the loop of select_free_endpoint,
                           \* counted modulo MaxRounds
     pending |-> <<>>,     \* the futures of `unordered` that were not polled yet
     inflight |-> {},      \* the endpoints whose load query was sent and not answered
     endpoints |-> <<>>,   \* the (load, endpoint) pairs collected, in the order they arrived
     endpoint |-> 0,       \* JobHandle.endpoint (0: no handle)
     concurrent |-> FALSE, \* another call was selecting when schedule_job was called
     result |-> "none"]    \* what get_result returned

\* A scheduler over 0 to NumEndpoints endpoints, nobody has called it yet
InitSched ==
    /\ SetUp({<<>>})
    /\ NoReuseCheck
    /\ NoBars
    /\ NoMatch
    /\ guard \in {[e \in 1..n |-> Unlocked] : n \in 0..NumEndpoints}
    /\ call = [c \in Callers |-> IdleCall]

\* The smallest load of the pairs of l
MinLoad(l) == CHOOSE u \in {l[i][1] : i \in 1..Len(l)} : \A i \in 1..Len(l) : u <= l[i][1]

\* The endpoint of the first pair, whatever its load
first_sorted_by_load_Unsorted(l) == l[1][2]

\* endpoints.iter().sorted_by(|tpla, tplb| tpla.0.cmp(&tplb.0)).map(|tpl|
\* tpl.1.clone()).next(), for a list that is not empty: the sort is stable, so
\* this is the endpoint of the first pair of minimal load
first_sorted_by_load(l) ==
    LET i == CHOOSE i \in 1..Len(l) :
                 /\ l[i][1] = MinLoad(l)
                 /\ \A k \in 1..(i - 1) : l[k][1] # MinLoad(l)
    IN  l[i][2]

\* The guards after caller c dropped the write guards it holds on the endpoints of S
ReleaseWrite(g, S) == [e \in DOMAIN g |-> IF e \in S THEN [g[e] EXCEPT !.writer = 0] ELSE g[e]]

\* schedule_job is called; select_free_endpoint pushes one future per endpoint
ScheduleJob(c) ==
    /\ call[c].pc = "idle"
    /\ call' = [call EXCEPT ![c] =
                  [@ EXCEPT !.pc = "select",
                            !.rounds = 1,
                            !.pending = [i \in 1..Len(guard) |-> i],
                            !.concurrent = \E o \in Callers \ {c} : call[o].pc = "select"]]
    /\ UNCHANGED <<ovars, rvars, bvars, mvars, guard>>

\* The first poll of a future of `unordered`: ep.write() waits until nobody
\* holds a guard of the endpoint, then the load query is sent
QueryStart(c) ==
    /\ call[c].pc = "select"
    /\ call[c].pending # <<>>
    /\ LET e == Head(call[c].pending) IN
       /\ guard[e] = Unlocked
       /\ guard' = [guard EXCEPT ![e].writer = c]
       /\ call' = [call EXCEPT ![c] =
                     [@ EXCEPT !.pending = Tail(@), !.inflight = @ \cup {e}]]
    /\ UNCHANGED <<ovars, rvars, bvars, mvars>>

\* number_of_running_containers() of endpoint e answers, the future drops its
\* write guard. An Err ends collect and the call, which drops the other futures;
\* with the last Ok the list is sorted and schedule_job returns the JobHandle.
QueryDone(c, e) ==
    /\ call[c].pc = "select"
    /\ call[c].pending = <<>>
    /\ e \in call[c].inflight
    /\ \/ \E u \in 0..MaxLoad :
            LET endpoints == Append(call[c].endpoints, <<u, e>>) IN
            /\ guard' = ReleaseWrite(guard, {e})
            /\ call' = [call EXCEPT ![c] =
                          IF call[c].inflight = {e}
                          THEN [@ EXCEPT !.inflight = {},
                                         !.endpoints = endpoints,
                                         !.endpoint = first_sorted_by_load(endpoints),
                                         !.pc = "handle"]
                          ELSE [@ EXCEPT !.inflight = @ \ {e},
                                         !.endpoints = endpoints]]
       \/ /\ guard' = ReleaseWrite(guard, call[c].inflight)
          /\ call' = [call EXCEPT ![c] = [@ EXCEPT !.inflight = {}, !.pc = "failed"]]
    /\ UNCHANGED <<ovars, rvars, bvars, mvars>>

\* With no endpoint, collect returns an empty list at once, no endpoint is
\* found and the loop starts over; the iterations are counted up to MaxRounds
\* and then from 1 again
SelectAgain(c) ==
    /\ call[c].pc = "select"
    /\ Endpoints = {}
    /\ call' = [call EXCEPT ![c].rounds = IF @ < MaxRounds THEN @ + 1 ELSE 1]
    /\ UNCHANGED <<ovars, rvars, bvars, mvars, guard>>

\* JobHandle::get_result up to run_job(..).await: self.endpoint.read() waits
\* while a write guard is held
GetResult(c) ==
    /\ call[c].pc = "handle"
    /\ guard[call[c].endpoint].writer = 0
    /\ guard' = [guard EXCEPT ![call[c].endpoint].readers = @ \cup {c}]
    /\ call' = [call EXCEPT ![c].pc = "running"]
    /\ UNCHANGED <<ovars, rvars, bvars, mvars>>

\* run_job returns; get_result returns and drops the read guard
RunJobReturns(c) ==
    /\ call[c].pc = "running"
    /\ guard' = [guard EXCEPT ![call[c].endpoint].readers = @ \ {c}]
    /\ \E r \in {"ok", "err"} :
          call' = [call EXCEPT ![c] = [@ EXCEPT !.pc = "done", !.result = r]]
    /\ UNCHANGED <<ovars, rvars, bvars, mvars>>

NextSched ==
    \/ \E c \in Callers : ScheduleJob(c)
    \/ \E c \in Callers : QueryStart(c)
    \/ \E c \in Callers : \E e \in Endpoints : QueryDone(c, e)
    \/ \E c \in Callers : SelectAgain(c)
    \/ \E c \in Callers : GetResult(c)
    \/ \E c \in Callers : RunJobReturns(c)

SpecSched == InitSched /\ [][NextSched]_vars

\* schedule_job returned a JobHandle to caller c
HasHandle(c) == call[c].endpoint # 0

\* Every endpoint reported load 0 to caller c
AllReportedZero(c) ==
    /\ Len(call[c].endpoints) = Len(guard)
    /\ \A i \in 1..Len(call[c].endpoints) : call[c].endpoints[i][1] = 0

\* Two endpoints reported load 0 to two calls of schedule_job that ran
\* concurrently and returned
TwoConcurrentCallsOnIdleEndpoints ==
    /\ Len(guard) = 2
    /\ HasHandle(1) /\ HasHandle(2)
    /\ call[1].concurrent \/ call[2].concurrent
    /\ AllReportedZero(1) /\ AllReportedZero(2)

\* C14 (as claimed): with two endpoints that both report load 0 and two
\* concurrent calls of schedule_job, the two JobHandles are bound to distinct
\* endpoints in every interleaving.
C14_DistinctEndpoints ==
    TwoConcurrentCallsOnIdleEndpoints => call[1].endpoint # call[2].endpoint

\* C14 (amended): every JobHandle is bound to an endpoint of the pool whose
\* load was the smallest of those reported to that call of schedule_job; with
\* two endpoints that both report load 0 to two concurrent calls, each handle is
\* bound to the endpoint that answered that call first.
C14_LeastLoadedOfOwnSnapshot ==
    /\ \A c \in Callers : HasHandle(c) =>
          /\ call[c].endpoint \in Endpoints
          /\ Len(call[c].endpoints) = Len(guard)
          /\ \A i \in 1..Len(call[c].endpoints) :
                call[c].endpoints[i][2] = call[c].endpoint =>
                    \A k \in 1..Len(call[c].endpoints) :
                        call[c].endpoints[i][1] <= call[c].endpoints[k][1]
    /\ TwoConcurrentCallsOnIdleEndpoints =>
          \A c \in Callers : call[c].endpoint = call[c].endpoints[1][2]

\* Two concurrent calls saw load 0 on both endpoints and their JobHandles are
\* bound to the same endpoint.
C14_Witness ==
    /\ TwoConcurrentCallsOnIdleEndpoints
    /\ call[1].endpoint = call[2].endpoint

----------------------------------------------------------------------------
(* Two runs of one Dag *)

\* Orchestrator::run has returned and is called a second time on the same Dag;
\* the catalog, the stores and the endpoints will answer as in the first run.
RunAgain ==
    /\ opc = "done"
    /\ firstRun = <<>>
    /\ firstRun' = << [reuseFound |-> reuseFound, runResult |-> runResult, result |-> result] >>
    /\ opc' = "init"
    /\ result' = [kind |-> "none"]
    /\ sender' = [j \in Jobs |-> <<>>]
    /\ pc' = [j \in Jobs |-> "new"]
    /\ received_dependencies' = [j \in Jobs |-> EmptyMap]
    /\ received_errors' = [j \in Jobs |-> EmptyMap]
    /\ out' = [j \in Jobs |-> OkMsg(EmptyMap)]
    /\ sendIdx' = [j \in Jobs |-> 0]
    /\ chan' = [c \in {Root} \cup Jobs |-> <<>>]
    /\ schedCalls' = [j \in Jobs |-> 0]
    /\ reuseFound' = [j \in Jobs |-> <<>>]
    /\ runResult' = [j \in Jobs |-> [kind |-> "none"]]
    /\ sent' = {}
    /\ dependency_artifacts' = [j \in Jobs |-> <<>>]
    /\ UNCHANGED <<jobdag, rvars, svars, bvars, mvars>>

NextTwice == Next \/ RunAgain

SpecTwice == Init /\ [][NextTwice]_vars

\* The artifacts a run that returned r has added to the caller's list
ArtifactsReturned(r) == IF r.kind = "ok" THEN r.artifacts ELSE {}

\* r is an error of the catalog, the job builder or the scheduler
IsExternalFatal(r) ==
    /\ r.kind = "fatal"
    /\ r.error.from \in {"find_artifacts", "build_from_job", "schedule_job", "run"}

\* Two runs of the Dag have returned, and neither was ended by an error of the
\* catalog, the job builder or the scheduler
BothRunsReturned ==
    /\ firstRun # <<>>
    /\ opc = "done"
    /\ ~IsExternalFatal(firstRun[1].result)
    /\ ~IsExternalFatal(result)

\* C18 (as claimed): two runs of the same Dag with the same store contents,
\* catalog answers and endpoint results return the same set of artifacts,
\* whatever the interleaving of the tasks.
C18_SameArtifactsInBothRuns ==
    BothRunsReturned => ArtifactsReturned(result) = ArtifactsReturned(firstRun[1].result)

----------------------------------------------------------------------------
(* Which channels a task sends to *)

\* The task of j sends errors: it received an Err message, or its endpoint run
\* returned Err(e)
FailedTask(j) == received_errors[j] # EmptyMap \/ RunFailed(j)

\* The messages the sends of j have queued
SentBy(j) == {s \in sent : s.from = j}

\* C21: a task that received an Err message, or whose endpoint run returned
\* Err(e), sends one Err map, on the first sender of its list and on no other
\* (the message is queued unless that dependent has returned already, which
\* for the error of its own run ends the task with the error of the send); a
\* task that reused or built artifacts, when it has returned, has sent its Ok
\* map on every sender of its list, and nothing else.
C21_ErrToFirstOkToAll ==
    [](\A j \in Jobs :
        /\ \A s \in SentBy(j) :
              ~s.msg.ok => (FailedTask(j) /\ s.to = sender[j][1] /\ SentBy(j) = {s})
        /\ (pc[j] = "done" /\ FailedTask(j)) =>
              /\ ~out[j].ok
              /\ SentBy(j) \subseteq {Sent(j, sender[j][1], out[j])}
              /\ SentBy(j) = {} => (~ReceiverOpen(sender[j][1]) /\ ~RunFailed(j))
        /\ (pc[j] = "done" /\ ~FailedTask(j)) =>
              /\ Succeeded(j)
              /\ out[j].ok
              /\ SentBy(j) = {Sent(j, sender[j][i], out[j]) : i \in 1..Len(sender[j])})

\* In the diamond A succeeded and has sent its Ok map to B and to C, the run of
\* B failed, and B and D have each sent one Err map and returned.
C21_Witness ==
    /\ jobdag = Diamond
    /\ Succeeded(1) /\ pc[1] = "done" /\ Cardinality(SentBy(1)) = 2
    /\ RunFailed(2) /\ pc[2] = "done" /\ Cardinality(SentBy(2)) = 1
    /\ received_errors[4] # EmptyMap /\ pc[4] = "done" /\ Cardinality(SentBy(4)) = 1

\* C22: over a whole run every task queues at most one message on each channel
\* of its sender list, and the list names no channel twice: no dependent gets
\* two messages (an Ok and an Err message, or two of a kind) from the same
\* task, and a channel never holds more messages than tasks have sent to it.
C22_OneMessagePerChannel ==
    [](/\ \A j \in Jobs :
             /\ \A i \in 1..Len(sender[j]) : \A k \in 1..Len(sender[j]) :
                   sender[j][i] = sender[j][k] => i = k
             /\ \A s \in SentBy(j) :
                   /\ s.to \in SetOf(sender[j])
                   /\ \A t \in SentBy(j) : s.to = t.to => s = t
             /\ pc[j] = "send_ok" =>
                   SentBy(j) = {Sent(j, sender[j][i], out[j]) : i \in 1..(sendIdx[j] - 1)}
       /\ \A c \in DOMAIN chan : Len(chan[c]) <= Cardinality({s \in sent : s.to = c}))

\* The run of the diamond has returned and five messages were sent, one on
\* each channel of each sender list.
C22_Witness ==
    /\ jobdag = Diamond
    /\ opc = "done"
    /\ result.kind = "ok"
    /\ Cardinality(sent) = 5
    /\ \A j \in Jobs : Cardinality(SentBy(j)) = Len(sender[j])

----------------------------------------------------------------------------
(* A channel that is closed before every dependency arrived *)

\* recv on the channel of j yields None: no message is queued and every Sender
\* of the channel was dropped
InboundClosed(j) == chan[j] = <<>> /\ ~SenderAlive(j)

\* The ids of the dependencies of j that are no key of its received_dependencies
MissingDeps(j) == {d \in jobdag[j] : d \notin DOMAIN received_dependencies[j]}

\* C23: when the channel of a waiting task is closed while an id of its
\* dependencies is missing from received_dependencies, the next step of the
\* task returns a fatal error that lists exactly the missing ids, and
\* Orchestrator::run fails with that error (unless the task is released because
\* another task failed first); a task never gets to the reuse check or to
\* dispatch with a dependency missing.
C23_ClosedChannelIsFatal ==
    /\ [](\A j \in Jobs :
            /\ (pc[j] \in {"reuse", "scheduling", "running", "send_ok", "send_err"}
                    \/ ReuseChecked(j) \/ Scheduled(j)) => MissingDeps(j) = {}
            /\ (result.kind = "fatal" /\ result.error.from = "perform_receive"
                    /\ result.error.job = j) =>
                  /\ opc = "done"
                  /\ pc[j] = "fatal"
                  /\ result.error.missing = MissingDeps(j)
                  /\ MissingDeps(j) # {}
                  /\ ~ReuseChecked(j) /\ ~Scheduled(j))
    /\ [][\A j \in Jobs :
            (pc[j] = "wait" /\ InboundClosed(j) /\ MissingDeps(j) # {}) =>
                \/ pc'[j] = "wait" /\ InboundClosed(j)'
                \/ pc'[j] = "dropped"
                \/ /\ pc'[j] = "fatal"
                   /\ opc' = "done"
                   /\ result' = [kind |-> "fatal",
                                 error |-> [from |-> "perform_receive", job |-> j,
                                            missing |-> MissingDeps(j)]]]_vars

\* In the diamond A failed and has sent its errors to B only; the channel of C
\* was closed with A missing, and the run failed with the error of C.
C23_Witness ==
    /\ jobdag = Diamond
    /\ RunFailed(1)
    /\ opc = "done"
    /\ result = [kind |-> "fatal",
                 error |-> [from |-> "perform_receive", job |-> 3, missing |-> {1}]]

----------------------------------------------------------------------------
(* A fatal error of one task *)

\* JobTask::run of some task returned Err
SomeTaskFatal == \E j \in Jobs : pc[j] = "fatal"

\* C24: when the run of a JobTask returns a fatal error, Orchestrator::run
\* returns that error in the same step, whatever was sent on the root channel;
\* every task that had not returned is released in that step, and from then on
\* no task sends a message, calls the scheduler or takes any other step.
C24_FatalEndsRun ==
    /\ []((SomeTaskFatal \/ result.kind = "fatal") =>
            /\ opc = "done"
            /\ result.kind = "fatal"
            /\ pc[result.error.job] = "fatal"
            /\ \A t \in Jobs \ {result.error.job} : pc[t] \in {"done", "dropped"}
            /\ \A c \in DOMAIN chan : chan[c] = <<>>)
    /\ [][\A j \in Jobs : (pc[j] # "fatal" /\ pc'[j] = "fatal") =>
            /\ result.kind = "none"
            /\ result'.error.job = j
            /\ \A t \in Jobs \ {j} : pc'[t] = IF pc[t] = "done" THEN "done" ELSE "dropped"
            /\ sent' = sent
            /\ schedCalls' = schedCalls]_vars
    /\ [][SomeTaskFatal =>
            /\ sent' = sent
            /\ schedCalls' = schedCalls
            /\ pc' = pc
            /\ result' = result]_vars

\* With three jobs that depend on nothing: the first has sent its Ok map on the
\* root channel and returned, the second returned a fatal error and the run
\* ended with it, and the third, which was running on an endpoint, was released.
C24_Witness ==
    /\ jobdag = <<{}, {}, {}>>
    /\ pc = <<"done", "fatal", "dropped">>
    /\ \E s \in sent : s.to = Root /\ s.from = 1
    /\ Scheduled(3) /\ runResult[3].kind = "none"
    /\ result.kind = "fatal" /\ result.error.job = 2

----------------------------------------------------------------------------
(* The progress bars of the tasks *)

MaxBarJobs == 2

\* The Dags whose bars are looked at
BarDags == UNION {[1..n -> SUBSET (1..n)] : n \in 0..MaxBarJobs}

\* run_tree has made one bar for each job
InitBars ==
    /\ SetUp(BarDags)
    /\ NoReuseCheck
    /\ NoScheduler
    /\ bar = [j \in Jobs |-> NewBar]
    /\ NoMatch

SpecBars == InitBars /\ [][Next]_vars

\* The JobTask of j was released: it returned, or its future was dropped
Released(j) == pc[j] \in {"done", "fatal", "dropped"}

\* The messages JobTask::run and the endpoint run finish a bar with
FinishMessagesOfRun ==
    {"Stopping, errors from child received", "Reusing artifact", "endpoint run"}

\* C25: once a JobTask is released, because it returned (after sending errors,
\* after reuse or after dispatch), because it returned a fatal error or because
\* the runtime dropped it, its bar is finished; a bar that was finished before
\* the release keeps its message in that step and ever after, and a bar that was
\* not finished has the message "Stopped, error on other task".
C25_BarFinishedOnRelease ==
    /\ [](\A j \in Jobs : Released(j) =>
            /\ bar[j].finished
            /\ bar[j].message \in FinishMessagesOfRun \cup {"Stopped, error on other task"}
            /\ (pc[j] = "done" /\ received_errors[j] # EmptyMap) =>
                  bar[j].message = "Stopping, errors from child received"
            /\ (pc[j] = "done" /\ Reused(j)) => bar[j].message = "Reusing artifact"
            /\ (pc[j] = "dropped" /\ runResult[j].kind = "none") =>
                  bar[j].message = "Stopped, error on other task")
    /\ [][\A j \in Jobs :
            /\ bar[j].finished => bar'[j] = bar[j]
            /\ (~Released(j) /\ Released(j)' /\ ~bar[j].finished) =>
                  \/ bar'[j] = [finished |-> TRUE, message |-> "Stopped, error on other task"]
                  \/ bar'[j].finished /\ bar'[j].message \in FinishMessagesOfRun]_vars

\* Of two jobs the first was waiting for its endpoint run when it was dropped,
\* and its bar has the message of the drop hook; the endpoint run of the second
\* finished the bar and returned an error that ended the run, and the bar kept
\* the message of the endpoint run.
C25_Witness ==
    /\ jobdag = <<{}, {}>>
    /\ pc = <<"dropped", "fatal">>
    /\ Scheduled(1) /\ runResult[1].kind = "none"
    /\ bar[1] = [finished |-> TRUE, message |-> "Stopped, error on other task"]
    /\ bar[2] = [finished |-> TRUE, message |-> "endpoint run"]

----------------------------------------------------------------------------
(* The order of the candidates of the reuse check *)

\* The candidates after .sorted_by(..)
SortedCandidates == sorted_by(replacement_artifacts, staging_store)

\* The candidates after .sorted_by(..).unique_by(..)
UniqueCandidates == unique_by(SortedCandidates, {})

\* C26 (as claimed): the sort of the reuse check puts every candidate that lies
\* in the staging store before every candidate that does not, and of the
\* candidates of one artifact name the deduplication keeps the first, so that
\* when one of them lies in the staging store the one that is kept does.
C26_StagingSortedFirst ==
    resolved # <<>> =>
        /\ \A i \in 1..Len(SortedCandidates) : \A k \in 1..Len(SortedCandidates) :
              (/\ is_in_staging_store(SortedCandidates[i], staging_store)
               /\ ~is_in_staging_store(SortedCandidates[k], staging_store)) => i < k
        /\ \A i \in 1..Len(replacement_artifacts) :
              is_in_staging_store(replacement_artifacts[i], staging_store) =>
                  \A k \in 1..Len(UniqueCandidates) :
                      UniqueCandidates[k].artifact_path = replacement_artifacts[i].artifact_path
                          => is_in_staging_store(UniqueCandidates[k], staging_store)

----------------------------------------------------------------------------
(* Which endpoint select_free_endpoint returns *)

\* The load endpoint e reported to call c
ReportedLoad(c, e) ==
    LET i == CHOOSE i \in 1..Len(call[c].endpoints) : call[c].endpoints[i][2] = e
    IN  call[c].endpoints[i][1]

\* The place of the answer of endpoint e among the answers to call c
AnswerPlace(c, e) == CHOOSE i \in 1..Len(call[c].endpoints) : call[c].endpoints[i][2] = e

\* The endpoints that reported the smallest load to call c
LeastLoaded(c) ==
    {e \in Endpoints : \A o \in Endpoints : ReportedLoad(c, e) <= ReportedLoad(c, o)}

\* C27 (as claimed): the endpoint select_free_endpoint returns reported a load
\* that is minimal over the pool, and among the endpoints of minimal load it is
\* the first of the pool's enumeration order, in whatever order the load
\* queries completed.
C27_TieToFirstOfPool ==
    \A c \in Callers : HasHandle(c) =>
        /\ call[c].endpoint \in LeastLoaded(c)
        /\ \A e \in LeastLoaded(c) : call[c].endpoint <= e

\* C27 (amended): the endpoint select_free_endpoint returns reported a load
\* that is minimal over all endpoints of the pool, each of which reported once,
\* and among the endpoints of minimal load it is the one whose load query
\* completed first.
C27_TieToFirstAnswer ==
    \A c \in Callers : HasHandle(c) =>
        LET l == call[c].endpoints IN
        /\ Len(l) = Len(guard)
        /\ {l[k][2] : k \in 1..Len(l)} = Endpoints
        /\ \E i \in 1..Len(l) :
              /\ l[i][2] = call[c].endpoint
              /\ \A k \in 1..Len(l) :
                    /\ l[i][1] <= l[k][1]
                    /\ l[k][1] = l[i][1] => i <= k

\* Both endpoints reported the same load to a call, the second endpoint of the
\* pool answered first, and the call returned it.
C27_Witness ==
    \E c \in Callers :
        /\ HasHandle(c)
        /\ Len(guard) = 2
        /\ LeastLoaded(c) = {1, 2}
        /\ AnswerPlace(c, 2) = 1
        /\ call[c].endpoint = 2

----------------------------------------------------------------------------
(* Load queries while jobs run *)

\* Call c is about to take the write guard of endpoint e for its load query
NextQueryOn(c, e) ==
    /\ call[c].pc = "select"
    /\ call[c].pending # <<>>
    /\ Head(call[c].pending) = e

\* C28 (as claimed): a load query on an endpoint is never blocked by a job that
\* runs on that endpoint: when no other load query holds the endpoint, the
\* query of a schedule_job call can start, also while a job is running there,
\* so that the call does not have to wait for the job to finish.
C28_QueryNotBlockedByRunningJob ==
    \A c \in Callers : \A e \in Endpoints :
        (NextQueryOn(c, e) /\ guard[e].writer = 0) => ENABLED QueryStart(c)

----------------------------------------------------------------------------
(* Termination of schedule_job *)

\* The load queries and the endpoint runs answer, and every task that calls the
\* scheduler is polled when it can take a step
FairSpecSched == SpecSched /\ WF_vars(NextSched)

\* schedule_job has not returned to caller c
Selecting(c) == call[c].pc = "select"

\* C29 (as claimed): every call of schedule_job eventually returns, with a
\* JobHandle or with the error of a load query, and never loops forever, also
\* when the pool has no endpoint.
C29_ScheduleJobReturns == \A c \in Callers : Selecting(c) ~> ~Selecting(c)

----------------------------------------------------------------------------
(* The sender lists after wiring *)

\* The wiring loop and the search for the root task found no error, and the
\* JobTasks were created
Wired == opc # "init" /\ result.kind # "wiring"

\* C30: after the wiring of a Dag that passed the checks of the wiring, the
\* sender list of every JobTask is not empty: it holds, once each and nothing
\* else, the sender of every job that lists the task's job as a dependency, or
\* only the root sender when no job depends on it.
C30_SenderListsWired ==
    [](Wired =>
        \A j \in Jobs :
            /\ Len(sender[j]) >= 1
            /\ \A i \in 1..Len(sender[j]) : \A k \in 1..Len(sender[j]) :
                  sender[j][i] = sender[j][k] => i = k
            /\ IF Dependents(j) = {}
               THEN sender[j] = <<Root>>
               ELSE SetOf(sender[j]) = Dependents(j))

\* The diamond is wired: A has the senders of B and C, B and C have the sender
\* of D, and D has the root sender.
C30_Witness ==
    /\ jobdag = Diamond
    /\ opc = "running"
    /\ sender = <<<<2, 3>>, <<4>>, <<4>>, <<Root>>>>

----------------------------------------------------------------------------
(* Orchestrator::run_tree: the receive on root_receiver *)

\* Every JobTask returned Ok(()) and run_tree is about to receive
AllTasksOk == opc = "running" /\ \A j \in Jobs : pc[j] = "done"

\* The messages the tasks have sent on the root channel
SentToRoot == {s \in sent : s.to = Root}

\* run_tree returned the error of the None arm of root_receiver.recv()
NoResultReceived == result.kind = "fatal" /\ result.error.from = "recv"

\* C31: for a DAG with a unique root, when all JobTasks have resolved with Ok
\* exactly one message has been sent on the root channel, and it is the one
\* queued there; the receive on root_receiver can return, it is the only step
\* the run can take, and run_tree returns what that message holds: the
\* flattened artifacts of an Ok message or the error map of an Err message, and
\* never "No result received...".
C31_RootReceivesTheOneMessage ==
    /\ [](~NoResultReceived)
    /\ [](AllTasksOk /\ ValidDag =>
            /\ Cardinality(SentToRoot) = 1
            /\ \A s \in SentToRoot : s.from \in Sinks /\ chan[Root] = <<s.msg>>
            /\ ENABLED RootReceive)
    /\ [][AllTasksOk /\ ValidDag =>
            /\ opc' = "done"
            /\ result'.kind = "ok"
            /\ \A s \in SentToRoot :
                  IF s.msg.ok
                  THEN result'.artifacts = Flatten(s.msg.map) /\ result'.errors = EmptyMap
                  ELSE result'.artifacts = {} /\ result'.errors = s.msg.map]_vars

\* The run of the diamond returned the artifacts of the one message D sent on
\* the root channel.
C31_Witness ==
    /\ jobdag = Diamond
    /\ opc = "done"
    /\ \A j \in Jobs : pc[j] = "done"
    /\ SentToRoot = {Sent(4, Root, out[4])}
    /\ out[4].ok
    /\ result.kind = "ok"
    /\ result.artifacts = Flatten(out[4].map)
    /\ result.artifacts # {}

----------------------------------------------------------------------------
(* PackageVersionConstraint::matches (src/package/util.rs) *)

\* The versions looked at are the strings of at most MaxVersionLen characters
MaxVersionLen == 2

\* The characters of a version string
VersionChars == {"1", "2", "."}

\* PackageVersion(String)
PackageVersions == UNION {[1..n -> VersionChars] : n \in 0..MaxVersionLen}

\* enum PackageVersionConstraint
PackageVersionConstraints ==
    {[kind |-> "Any"], [kind |-> "Latest"]}
    \cup {[kind |-> "LowerAs", vers |-> w] : w \in PackageVersions}
    \cup {[kind |-> "HigherAs", vers |-> w] : w \in PackageVersions}
    \cup {[kind |-> "InRange", vers1 |-> w[1], vers2 |-> w[2]] :
             w \in PackageVersions \X PackageVersions}
    \cup {[kind |-> "Exact", vers |-> w] : w \in PackageVersions}

\* How a call ends: it returns Ok(m), or unimplemented!() panics
ReturnsOk(m) == [returned |-> TRUE, value |-> m]
Panics(msg) == [returned |-> FALSE, value |-> msg]

\* impl From<bool> for PackageVersionMatch
PackageVersionMatch_from(b) == IF b THEN "True" ELSE "False"

\* A matches whose unimplemented arms accept the version
matches_BoundsAccepted(self, v) ==
    CASE self.kind = "Any"      -> ReturnsOk("True")
      [] self.kind = "Latest"   -> ReturnsOk("Undecided")
      [] self.kind = "LowerAs"  -> ReturnsOk("True")
      [] self.kind = "HigherAs" -> ReturnsOk("True")
      [] self.kind = "InRange"  -> ReturnsOk("True")
      [] self.kind = "Exact"    -> ReturnsOk(PackageVersionMatch_from(v = self.vers))

\* PackageVersionConstraint::matches
matches(self, v) ==
    CASE self.kind = "Any"      -> ReturnsOk("True")
      [] self.kind = "Latest"   -> ReturnsOk("Undecided")
      [] self.kind = "LowerAs"  -> Panics("not implemented")
      [] self.kind = "HigherAs" -> Panics("not implemented")
      [] self.kind = "InRange"  -> Panics("not implemented")
      [] self.kind = "Exact"    -> ReturnsOk(PackageVersionMatch_from(v = self.vers))

\* A constraint and a version, and no call yet
InitMatch ==
    /\ SetUp({<<>>})
    /\ NoReuseCheck
    /\ NoScheduler
    /\ NoBars
    /\ constraint \in PackageVersionConstraints
    /\ version \in PackageVersions
    /\ matched = <<>>

\* constraint.matches(&version)
Matches ==
    /\ matched = <<>>
    /\ matched' = <<matches(constraint, version)>>
    /\ UNCHANGED <<ovars, rvars, svars, bvars, constraint, version>>

NextMatch == Matches

SpecMatch == InitMatch /\ [][NextMatch]_vars

\* C32: matches returns True for Any with every version, Undecided for Latest
\* with every version, and for Exact(w) True when the version equals w and False
\* otherwise; for LowerAs, HigherAs and InRange the call returns no match result
\* (it panics), so such a constraint is never accepted as matching.
C32_MatchesByConstraintKind ==
    matched # <<>> =>
        LET r == matched[1] IN
        /\ constraint.kind = "Any" => r.returned /\ r.value = "True"
        /\ constraint.kind = "Latest" => r.returned /\ r.value = "Undecided"
        /\ constraint.kind = "Exact" =>
              /\ r.returned
              /\ version = constraint.vers => r.value = "True"
              /\ version # constraint.vers => r.value = "False"
        /\ constraint.kind \in {"LowerAs", "HigherAs", "InRange"} => ~r.returned

\* The call with a range that holds the version ended without a match result.
C32_Witness ==
    /\ constraint = [kind |-> "InRange", vers1 |-> <<"1">>, vers2 |-> <<"2">>]
    /\ version = <<"1", ".">>
    /\ matched # <<>>
    /\ ~matched[1].returned
====
